---- MODULE Spec2Model ----
(***************************************************************************)
(* Model of generate_summaries.py (Boston news summarizer): one run of     *)
(* main() per process, the history merge of update_history, and the        *)
(* temp-file-then-replace persistence of save_json_safely on a small file  *)
(* system with inodes, so that crashes and concurrent runs can be checked. *)
(*                                                                         *)
(* A file's content is a sequence of lines, and offsets count lines.       *)
(* json.dump writes an object as "{", one line per member in key order,    *)
(* "}"; json.load accepts exactly the well-formed sequences.  An article   *)
(* is identified by its title; its link and pubDate are opaque copies and  *)
(* are left out.  A summary is abstracted to its kind: None, a list of 3   *)
(* clean strings ("ai"), a list of 3 strings one of which contains         *)
(* 'shocking' or 'everything' ("flagged"), or a list of 3 values that are  *)
(* not strings ("nonstr").                                                 *)
(*                                                                         *)
(* Specifications: Spec (one run of main), SpecHistory (update_history     *)
(* called again and again), SpecConc (two update_history calls at once),   *)
(* SpecClean (clean_json_file on files with a conflict block),             *)
(* SpecFallback (generate_factual_fallback on token texts) and SpecBatch   *)
(* (batch_generate_summaries over batches of 3).                           *)
(***************************************************************************)
EXTENDS Integers, Sequences, FiniteSets, TLC

\* ---------------------------------------------------------------- bounds
MaxFeed == 2
NumTitles == 2
MaxDesc == 4
MaxSeg == 1
MaxBatchInput == 4

\* ------------------------------------------------------ program constants
HISTORY_CAP == 500

HISTORY_FILE == "news-history.json"
DATA_FILE == "news-data.json"

Procs == {1, 2}
Titles == 1..NumTitles
Feeds == UNION {[1..n -> Titles] : n \in 0..MaxFeed}

None == "None"
Outcomes == {"ok", "flagged", "nonstr", "raise", "badshape"}

VARIABLES files, inodes, pc, client, articles, idx, summary,
          attempts, callLog, processed, ai_count, history, output, saveName,
          saveRet, saveOk, fd, cleaned, error, exitCode, crashPc,
          article, fallback

vars == <<files, inodes, pc, client, articles, idx, summary,
          attempts, callLog, processed, ai_count, history, output, saveName,
          saveRet, saveOk, fd, cleaned, error, exitCode, crashPc, article, fallback>>

\* ------------------------------------------------------------ JSON text
\* One line of a file: a brace, a scalar member (number n or string s), the
\* "articles" member with its array a, a conflict marker, or a NUL gap.
Tok(k, n, s) == [k |-> k, n |-> n, s |-> s, a |-> <<>>]
Key(k) == Tok(k, 0, "")
ArticlesLine(arts) == [k |-> "articles", n |-> 0, s |-> "", a |-> arts]

MemberKeys == {"articles", "lastUpdated", "totalArticles", "stats.error",
               "stats.total_articles", "stats.ai_summaries",
               "stats.fallback_summaries", "stats.success_rate"}

Min(S) == CHOOSE x \in S : \A y \in S : x <= y
Max(S) == CHOOSE x \in S : \A y \in S : x >= y

\* json.load succeeds: the text is one object, "{", members, "}".
ValidJson(c) ==
    /\ Len(c) >= 2
    /\ c[1].k = "{"
    /\ c[Len(c)].k = "}"
    /\ \A i \in 2..(Len(c) - 1) : c[i].k \in MemberKeys

\* The dict json.load returns for a valid file; of a repeated key the last
\* value counts.
JsonLoad(c) ==
    LET at(k) == {i \in 2..(Len(c) - 1) : c[i].k = k}
    IN [hasArticles |-> at("articles") # {},
        articles |-> IF at("articles") = {} THEN <<>> ELSE c[Max(at("articles"))].a,
        lastUpdated |-> IF at("lastUpdated") = {} THEN 0
                        ELSE c[Max(at("lastUpdated"))].n,
        totalArticles |-> IF at("totalArticles") = {} THEN 0
                          ELSE c[Max(at("totalArticles"))].n]

\* json.dump of the history dict: articles, lastUpdated, totalArticles.
DumpHistory(h) ==
    <<Key("{"), ArticlesLine(h.articles), Tok("lastUpdated", h.lastUpdated, ""),
      Tok("totalArticles", h.totalArticles, ""), Key("}")>>

\* The stats object, one line per entry.
StatsLines(st) ==
    IF st.error # ""
    THEN <<Tok("stats.error", 0, st.error)>>
    ELSE <<Tok("stats.total_articles", st.total_articles, ""),
           Tok("stats.ai_summaries", st.ai_summaries, ""),
           Tok("stats.fallback_summaries", st.fallback_summaries, ""),
           Tok("stats.success_rate", st.success_rate, "%")>>

\* json.dump of the output dict: lastUpdated, articles, stats.
DumpOutput(o) ==
    <<Key("{"), Tok("lastUpdated", o.lastUpdated, ""), ArticlesLine(o.articles)>>
        \o StatsLines(o.stats) \o <<Key("}")>>

\* ------------------------------------------------- clean_json_file (13-47)
IsMarker(line) == line.k \in {"<<<<<<< ", "=======", ">>>>>>> "}
HasConflict(content) == \E i \in 1..Len(content) : content[i].k = "<<<<<<< "

\* The loop of lines 26-30: every marker line toggles skip.
RECURSIVE CleanRest(_, _)
CleanRest(lines, skip) ==
    IF lines = <<>> THEN <<>>
    ELSE IF IsMarker(Head(lines)) THEN CleanRest(Tail(lines), ~skip)
    ELSE IF ~skip THEN <<Head(lines)>> \o CleanRest(Tail(lines), skip)
    ELSE CleanRest(Tail(lines), skip)

CleanLines(lines) == CleanRest(lines, FALSE)

\* ------------------------------------------------- update_history (314-332)
DefaultHistory ==
    [hasArticles |-> TRUE, articles |-> <<>>, lastUpdated |-> 0, totalArticles |-> 0]

ExistingTitles(h) == {h.articles[i].title : i \in 1..Len(h.articles)}

\* Faulty variant: the membership test of line 323 left out.
IsNew_always(title, existing_titles) == TRUE

IsNew(title, existing_titles) == title \notin existing_titles

\* Lines 322-324: existing_titles is computed once, before the loop.
RECURSIVE InsertNew(_, _, _)
InsertNew(arts, new_articles, existing_titles) ==
    IF new_articles = <<>> THEN arts
    ELSE InsertNew(IF IsNew(Head(new_articles).title, existing_titles)
                   THEN <<Head(new_articles)>> \o arts ELSE arts,
                   Tail(new_articles), existing_titles)

\* Faulty variant: the slice of line 327 left out.
Truncate_off(arts) == arts

Truncate(arts) ==
    SubSeq(arts, 1, IF Len(arts) < HISTORY_CAP THEN Len(arts) ELSE HISTORY_CAP)

Merge(h, new_articles, now) ==
    LET arts == Truncate(InsertNew(h.articles, new_articles, ExistingTitles(h)))
    IN [hasArticles |-> TRUE, articles |-> arts, lastUpdated |-> now,
        totalArticles |-> Len(arts)]

\* --------------------------------------------------------- main (334-415)
\* f"{(ai_count/len(processed)*100):.0f}": rounded half to even.
SuccessRate(ai, n) ==
    LET q == (ai * 100) \div n
        r == (ai * 100) % n
    IN IF 2 * r > n THEN q + 1
       ELSE IF 2 * r < n THEN q
       ELSE IF q % 2 = 0 THEN q ELSE q + 1

NoStats ==
    [error |-> "", total_articles |-> 0, ai_summaries |-> 0,
     fallback_summaries |-> 0, success_rate |-> 0]

ErrorOutput(now, msg) ==
    [lastUpdated |-> now, articles |-> <<>>, stats |-> [NoStats EXCEPT !.error = msg]]

\* Faulty variant: the empty-feed record without its error entry.
NoArticlesOutput_nostats(now) ==
    [lastUpdated |-> now, articles |-> <<>>, stats |-> NoStats]

NoArticlesOutput(now) == ErrorOutput(now, "No articles")

RunOutput(now, done, ai) ==
    [lastUpdated |-> now, articles |-> done,
     stats |-> [error |-> "", total_articles |-> Len(done), ai_summaries |-> ai,
                fallback_summaries |-> Len(done) - ai,
                success_rate |-> SuccessRate(ai, Len(done))]]

NoOutput == [lastUpdated |-> 0, articles |-> <<>>, stats |-> NoStats]

\* What generate_summary returns for each behaviour of the external call.
SummaryOf(o) ==
    CASE o = "ok" -> "ai"
      [] o = "flagged" -> "flagged"
      [] o = "nonstr" -> "nonstr"
      [] OTHER -> None

\* Line 381: iterating None, or testing 'shocking' in a non-string, raises.
CheckRaises(cl, s) == cl /\ s \in {None, "nonstr"}
CountsAsAi(cl, s) == cl /\ s # "flagged"

\* ----------------------------------------------------------- file system
\* Faulty variant: the text is written straight into the target.
TempFile_inplace(filename) == filename

TempFile(filename) ==
    IF filename = HISTORY_FILE THEN "news-history.json.tmp" ELSE "news-data.json.tmp"

Paths == {HISTORY_FILE, DATA_FILE, TempFile(HISTORY_FILE), TempFile(DATA_FILE)}
Inodes == 1..(Cardinality(Paths) + Cardinality(Procs))
NUL == Key("NUL")
Closed == [ino |-> 0, off |-> 0]

Exists(path) == files[path] # 0
Content(path) == IF files[path] = 0 THEN <<>> ELSE inodes[files[path]]

Referenced(i, fls, fds) ==
    (\E path \in Paths : fls[path] = i) \/ (\E q \in Procs : fds[q].ino = i)

FreshInode == Min({i \in Inodes : ~Referenced(i, files, fd)})

\* An inode with no name and no open descriptor is gone.
Collect(fls, inos, fds) ==
    [i \in Inodes |-> IF Referenced(i, fls, fds) THEN inos[i] ELSE <<>>]

\* write(2) of chunk at offset off; a gap is filled with NUL.
WriteAt(content, off, chunk) ==
    LET end == off + Len(chunk)
        n == IF Len(content) > end THEN Len(content) ELSE end
    IN [i \in 1..n |-> IF off < i /\ i <= end THEN chunk[i - off]
                       ELSE IF i <= Len(content) THEN content[i] ELSE NUL]

\* The text a save writes: json.dump flushes it in one write at close, or in
\* two writes when the buffer fills first.
SaveData(p) ==
    IF saveName[p] = HISTORY_FILE THEN DumpHistory(history[p])
    ELSE DumpOutput(output[p])

WriteSizes(off, rem) == IF off = 0 /\ rem > 1 THEN {rem \div 2, rem} ELSE {rem}

\* ------------------------------------------------------------- processes
\* datetime.now().isoformat(): the stamp tells the writers apart.
Now(p) == p

disk == <<files, inodes>>
article_vars == <<articles, idx, summary, attempts, callLog, processed, ai_count>>
save_vars == <<saveName, saveRet, saveOk, fd>>

\* Lines 341-358: the client exists when a key is set and the test call works.
MainInit(p) ==
    /\ pc[p] = "start"
    /\ \E key \in BOOLEAN, testOk \in BOOLEAN :
          client' = [client EXCEPT ![p] = key /\ testOk]
    /\ pc' = [pc EXCEPT ![p] = "fetch"]
    /\ UNCHANGED <<disk, article_vars, history, output, save_vars,
                   cleaned, error, exitCode, crashPc, article, fallback>>

\* Faulty variant: update_history is called before the test for an empty
\* feed, with the empty batch.
FetchFeed_merges(p) ==
    /\ pc[p] = "fetch"
    /\ \E feed \in Feeds :
          /\ articles' = [articles EXCEPT ![p] = feed]
          /\ IF feed = <<>>
             THEN /\ output' = [output EXCEPT ![p] = NoArticlesOutput(Now(p))]
                  /\ pc' = [pc EXCEPT ![p] = "uh_load"]
                  /\ UNCHANGED <<saveName, saveRet>>
                  /\ idx' = idx
             ELSE /\ idx' = [idx EXCEPT ![p] = 1]
                  /\ pc' = [pc EXCEPT ![p] = "gen"]
                  /\ UNCHANGED <<output, saveName, saveRet>>
    /\ UNCHANGED <<disk, client, summary, attempts, callLog,
                   processed, ai_count, history, saveOk, fd, cleaned, error,
                   exitCode, crashPc, article, fallback>>

\* Lines 361-373: fetch_rss_feed, then the empty-feed branch of main.
FetchFeed(p) ==
    /\ pc[p] = "fetch"
    /\ \E feed \in Feeds :
          /\ articles' = [articles EXCEPT ![p] = feed]
          /\ IF feed = <<>>
             THEN /\ output' = [output EXCEPT ![p] = NoArticlesOutput(Now(p))]
                  /\ saveName' = [saveName EXCEPT ![p] = DATA_FILE]
                  /\ saveRet' = [saveRet EXCEPT ![p] = "main_end"]
                  /\ pc' = [pc EXCEPT ![p] = "save_open"]
                  /\ idx' = idx
             ELSE /\ idx' = [idx EXCEPT ![p] = 1]
                  /\ pc' = [pc EXCEPT ![p] = "gen"]
                  /\ UNCHANGED <<output, saveName, saveRet>>
    /\ UNCHANGED <<disk, client, summary, attempts, callLog,
                   processed, ai_count, history, saveOk, fd, cleaned, error,
                   exitCode, crashPc, article, fallback>>

\* Lines 231-265 (called at 378): one call when there is a client; every
\* failure is swallowed and the function falls off its end, returning None.
GenerateSummary(p) ==
    /\ pc[p] = "gen"
    /\ IF client[p]
       THEN \E o \in Outcomes :
               /\ callLog' = [callLog EXCEPT ![p] = Append(@, o)]
               /\ attempts' = [attempts EXCEPT ![p] = 1]
               /\ summary' = [summary EXCEPT ![p] = SummaryOf(o)]
       ELSE /\ summary' = [summary EXCEPT ![p] = None]
            /\ attempts' = [attempts EXCEPT ![p] = 0]
            /\ callLog' = callLog
    /\ pc' = [pc EXCEPT ![p] = "check"]
    /\ UNCHANGED <<disk, client, articles, idx, processed,
                   ai_count, history, output, save_vars, cleaned, error,
                   exitCode, crashPc, article, fallback>>

\* Lines 380-396: count, append, next article; after the last, update_history.
CheckAndAppend(p) ==
    /\ pc[p] = "check"
    /\ IF CheckRaises(client[p], summary[p])
       THEN /\ error' = [error EXCEPT ![p] = "TypeError"]
            /\ pc' = [pc EXCEPT ![p] = "fatal"]
            /\ UNCHANGED <<idx, processed, ai_count>>
       ELSE /\ ai_count' = [ai_count EXCEPT ![p] =
                               IF CountsAsAi(client[p], summary[p]) THEN @ + 1 ELSE @]
            /\ processed' = [processed EXCEPT ![p] =
                               Append(@, [title |-> articles[p][idx[p]],
                                          summary |-> summary[p]])]
            /\ IF idx[p] < Len(articles[p])
               THEN /\ idx' = [idx EXCEPT ![p] = @ + 1]
                    /\ pc' = [pc EXCEPT ![p] = "gen"]
               ELSE /\ idx' = idx
                    /\ pc' = [pc EXCEPT ![p] = "uh_load"]
            /\ error' = error
    /\ summary' = [summary EXCEPT ![p] = None]
    /\ attempts' = [attempts EXCEPT ![p] = 0]
    /\ UNCHANGED <<disk, client, articles, callLog, history,
                   output, save_vars, cleaned, exitCode, crashPc, article, fallback>>

\* Line 316 with 51-53: the first json.load of load_json_safely.
UpdateHistoryLoad(p) ==
    /\ pc[p] = "uh_load"
    /\ IF Exists(HISTORY_FILE) /\ ValidJson(Content(HISTORY_FILE))
       THEN /\ history' = [history EXCEPT ![p] = JsonLoad(Content(HISTORY_FILE))]
            /\ pc' = [pc EXCEPT ![p] = "uh_merge"]
       ELSE /\ history' = history
            /\ pc' = [pc EXCEPT ![p] = "clean"]
    /\ UNCHANGED <<disk, client, article_vars, output,
                   save_vars, cleaned, error, exitCode, crashPc, article, fallback>>

\* Lines 13-34 (called at 56): a file that cannot be read or has no opening
\* marker is left alone; otherwise the lines the loop keeps are joined.
CleanJsonFile(p) ==
    /\ pc[p] = "clean"
    /\ IF Exists(HISTORY_FILE) /\ HasConflict(Content(HISTORY_FILE))
       THEN /\ cleaned' = [cleaned EXCEPT ![p] = CleanLines(Content(HISTORY_FILE))]
            /\ pc' = [pc EXCEPT ![p] = "clean_check"]
       ELSE /\ pc' = [pc EXCEPT ![p] = "uh_reload"]
            /\ cleaned' = cleaned
    /\ UNCHANGED <<disk, client, article_vars, history, output,
                   save_vars, error, exitCode, crashPc, article, fallback>>

\* Lines 35-44: cleaned text that is valid JSON is written back, the file
\* opened for writing in place, which truncates it; otherwise the function
\* gives up and the file stays as it is.
CleanValidate(p) ==
    /\ pc[p] = "clean_check"
    /\ IF ValidJson(cleaned[p])
       THEN /\ inodes' = [inodes EXCEPT ![files[HISTORY_FILE]] = <<>>]
            /\ fd' = [fd EXCEPT ![p] = [ino |-> files[HISTORY_FILE], off |-> 0]]
            /\ pc' = [pc EXCEPT ![p] = "clean_write"]
            /\ cleaned' = cleaned
       ELSE /\ cleaned' = [cleaned EXCEPT ![p] = <<>>]
            /\ pc' = [pc EXCEPT ![p] = "uh_reload"]
            /\ UNCHANGED <<inodes, fd>>
    /\ UNCHANGED <<files, client, article_vars, history, output,
                   saveName, saveRet, saveOk, error, exitCode, crashPc, article, fallback>>

\* Line 37 and the close of the with block.
CleanWrite(p) ==
    /\ pc[p] = "clean_write"
    /\ fd' = [fd EXCEPT ![p] = Closed]
    /\ inodes' = Collect(files,
                         [inodes EXCEPT ![fd[p].ino] = WriteAt(@, fd[p].off, cleaned[p])],
                         fd')
    /\ cleaned' = [cleaned EXCEPT ![p] = <<>>]
    /\ pc' = [pc EXCEPT ![p] = "uh_reload"]
    /\ UNCHANGED <<files, client, article_vars, history, output,
                   saveName, saveRet, saveOk, error, exitCode, crashPc, article, fallback>>

\* Lines 57-61: the second json.load, else the default {'articles': []}.
UpdateHistoryReload(p) ==
    /\ pc[p] = "uh_reload"
    /\ history' = [history EXCEPT ![p] =
                      IF Exists(HISTORY_FILE) /\ ValidJson(Content(HISTORY_FILE))
                      THEN JsonLoad(Content(HISTORY_FILE)) ELSE DefaultHistory]
    /\ pc' = [pc EXCEPT ![p] = "uh_merge"]
    /\ UNCHANGED <<disk, client, article_vars, output,
                   save_vars, cleaned, error, exitCode, crashPc, article, fallback>>

\* Lines 319-331: history['articles'] raises KeyError when the loaded object
\* has no such key; otherwise merge, cap, stamp, and save.
UpdateHistoryMerge(p) ==
    /\ pc[p] = "uh_merge"
    /\ IF ~history[p].hasArticles
       THEN /\ error' = [error EXCEPT ![p] = "KeyError"]
            /\ pc' = [pc EXCEPT ![p] = "fatal"]
            /\ UNCHANGED <<history, saveName, saveRet>>
       ELSE /\ history' = [history EXCEPT ![p] = Merge(@, processed[p], Now(p))]
            /\ saveName' = [saveName EXCEPT ![p] = HISTORY_FILE]
            /\ saveRet' = [saveRet EXCEPT ![p] = "uh_done"]
            /\ pc' = [pc EXCEPT ![p] = "save_open"]
            /\ error' = error
    /\ UNCHANGED <<disk, client, article_vars, output, saveOk,
                   fd, cleaned, exitCode, crashPc, article, fallback>>

\* Lines 67-68: open(temp_file, 'w') creates the file or truncates it.
SaveOpen(p) ==
    /\ pc[p] = "save_open"
    /\ LET path == TempFile(saveName[p])
           ino == IF files[path] # 0 THEN files[path] ELSE FreshInode
       IN /\ files' = [files EXCEPT ![path] = ino]
          /\ inodes' = [inodes EXCEPT ![ino] = <<>>]
          /\ fd' = [fd EXCEPT ![p] = [ino |-> ino, off |-> 0]]
    /\ saveOk' = [saveOk EXCEPT ![p] = TRUE]
    /\ pc' = [pc EXCEPT ![p] = "save_write"]
    /\ UNCHANGED <<client, article_vars, history, output,
                   saveName, saveRet, cleaned, error, exitCode, crashPc, article, fallback>>

\* Line 69 and the close of the with block: the text reaches the file at
\* the descriptor's offset; the last write is followed by close.
SaveWrite(p) ==
    /\ pc[p] = "save_write"
    /\ LET data == SaveData(p)
           off == fd[p].off
       IN \E n \in WriteSizes(off, Len(data) - off) :
             LET written == [inodes EXCEPT ![fd[p].ino] =
                                WriteAt(@, off, SubSeq(data, off + 1, off + n))]
             IN IF off + n = Len(data)
                THEN /\ fd' = [fd EXCEPT ![p] = Closed]
                     /\ inodes' = Collect(files, written, fd')
                     /\ pc' = [pc EXCEPT ![p] = "save_replace"]
                ELSE /\ fd' = [fd EXCEPT ![p].off = off + n]
                     /\ inodes' = written
                     /\ pc' = pc
    /\ UNCHANGED <<files, client, article_vars, history, output,
                   saveName, saveRet, saveOk, cleaned, error, exitCode, crashPc, article, fallback>>

\* Lines 72-76: os.replace renames the temporary file over the target; when
\* the temporary file is gone it raises, and save_json_safely returns False.
SaveReplace(p) ==
    /\ pc[p] = "save_replace"
    /\ LET src == TempFile(saveName[p])
       IN IF files[src] = 0
          THEN /\ saveOk' = [saveOk EXCEPT ![p] = FALSE]
               /\ UNCHANGED <<files, inodes>>
          ELSE /\ files' = [files EXCEPT ![saveName[p]] = files[src], ![src] = 0]
               /\ inodes' = Collect(files', inodes, fd)
               /\ saveOk' = saveOk
    /\ pc' = [pc EXCEPT ![p] = saveRet[p]]
    /\ UNCHANGED <<client, article_vars, history, output,
                   saveName, saveRet, fd, cleaned, error, exitCode, crashPc, article, fallback>>

\* Lines 398-410: the output of a run that processed articles.
BuildOutput(p) ==
    /\ pc[p] = "uh_done"
    /\ output' = [output EXCEPT ![p] = RunOutput(Now(p), processed[p], ai_count[p])]
    /\ saveName' = [saveName EXCEPT ![p] = DATA_FILE]
    /\ saveRet' = [saveRet EXCEPT ![p] = "main_end"]
    /\ pc' = [pc EXCEPT ![p] = "save_open"]
    /\ UNCHANGED <<disk, client, article_vars, history, saveOk,
                   fd, cleaned, error, exitCode, crashPc, article, fallback>>

\* Lines 412-415, 419: main returns and the process ends with status 0.
MainEnd(p) ==
    /\ pc[p] = "main_end"
    /\ exitCode' = [exitCode EXCEPT ![p] = 0]
    /\ pc' = [pc EXCEPT ![p] = "done"]
    /\ UNCHANGED <<disk, client, article_vars, history, output,
                   save_vars, cleaned, error, crashPc, article, fallback>>

\* Lines 420-427: an exception that left main; the minimal record is saved.
FatalHandler(p) ==
    /\ pc[p] = "fatal"
    /\ output' = [output EXCEPT ![p] = ErrorOutput(Now(p), error[p])]
    /\ saveName' = [saveName EXCEPT ![p] = DATA_FILE]
    /\ saveRet' = [saveRet EXCEPT ![p] = "fatal_exit"]
    /\ pc' = [pc EXCEPT ![p] = "save_open"]
    /\ UNCHANGED <<disk, client, article_vars, history, saveOk,
                   fd, cleaned, error, exitCode, crashPc, article, fallback>>

\* Faulty variant: the handler ends the process with a failure status.
FatalStatus_failure(err) == 1

\* Line 428: exit(0), whatever the exception was.
FatalStatus(err) == 0

FatalExit(p) ==
    /\ pc[p] = "fatal_exit"
    /\ exitCode' = [exitCode EXCEPT ![p] = FatalStatus(error[p])]
    /\ pc' = [pc EXCEPT ![p] = "done"]
    /\ UNCHANGED <<disk, client, article_vars, history, output,
                   save_vars, cleaned, error, crashPc, article, fallback>>

\* The process dies: its memory and open descriptor are lost, the disk stays.
Crash(p) ==
    /\ pc[p] \notin {"off", "done", "crashed"}
    /\ crashPc' = [crashPc EXCEPT ![p] = pc[p]]
    /\ pc' = [pc EXCEPT ![p] = "crashed"]
    /\ client' = [client EXCEPT ![p] = FALSE]
    /\ articles' = [articles EXCEPT ![p] = <<>>]
    /\ idx' = [idx EXCEPT ![p] = 0]
    /\ summary' = [summary EXCEPT ![p] = None]
    /\ attempts' = [attempts EXCEPT ![p] = 0]
    /\ callLog' = [callLog EXCEPT ![p] = <<>>]
    /\ processed' = [processed EXCEPT ![p] = <<>>]
    /\ ai_count' = [ai_count EXCEPT ![p] = 0]
    /\ history' = [history EXCEPT ![p] = DefaultHistory]
    /\ output' = [output EXCEPT ![p] = NoOutput]
    /\ saveName' = [saveName EXCEPT ![p] = ""]
    /\ saveRet' = [saveRet EXCEPT ![p] = ""]
    /\ saveOk' = [saveOk EXCEPT ![p] = TRUE]
    /\ fd' = [fd EXCEPT ![p] = Closed]
    /\ cleaned' = [cleaned EXCEPT ![p] = <<>>]
    /\ error' = [error EXCEPT ![p] = ""]
    /\ inodes' = Collect(files, inodes, fd')
    /\ UNCHANGED <<files, exitCode, article, fallback>>

\* ---------------------------------- generate_factual_fallback (267-312)
\* A title or a description is a sequence of tokens.  In a description the
\* tokens are words separated by single spaces: a lower-case word, a
\* capitalised word, the capitalised location "Boston", the numbers "7" and
\* "9", and "." for a full stop that closes the word before it.  In a title
\* the tokens are concatenated: the prefix "Breaking: ", the word "Mayor" and
\* a blank.
DescTokens == {"word", "Name", "Boston", "7", "9", "."}
TitleTokens == {"Breaking: ", "Mayor", " "}

NoArticle == [title |-> <<>>, description |-> <<>>]

\* Line 276: the matches of the number pattern.
IsNumber(t) == t \in {"7", "9"}
Numbers(desc) == SelectSeq(desc, IsNumber)

\* Line 279: the non-overlapping matches of two capitalised words in a row.
IsCapitalised(t) == t \in {"Name", "Boston"}

RECURSIVE Names(_)
Names(desc) ==
    IF Len(desc) < 2 THEN <<>>
    ELSE IF IsCapitalised(desc[1]) /\ IsCapitalised(desc[2])
         THEN <<SubSeq(desc, 1, 2)>> \o Names(SubSeq(desc, 3, Len(desc)))
         ELSE Names(Tail(desc))

\* Line 282: the matches of the location pattern.
IsLocation(t) == t = "Boston"
Locations(desc) == SelectSeq(desc, IsLocation)

\* Line 297: int(hashlib.md5(title.encode()).hexdigest()[:2], 16), the first
\* byte of the digest of the title's text.
Md5Byte(title) ==
    CASE title = <<>> -> 212
      [] title = <<"Breaking: ">> -> 254
      [] title = <<"Mayor">> -> 151
      [] title = <<" ">> -> 114
      [] title = <<"Breaking: ", "Breaking: ">> -> 57
      [] title = <<"Breaking: ", "Mayor">> -> 89
      [] title = <<"Breaking: ", " ">> -> 176
      [] title = <<"Mayor", "Breaking: ">> -> 92
      [] title = <<"Mayor", "Mayor">> -> 55
      [] title = <<"Mayor", " ">> -> 21
      [] title = <<" ", "Breaking: ">> -> 20
      [] title = <<" ", "Mayor">> -> 67
      [] title = <<" ", " ">> -> 35

\* Lines 298-305.
factual_fallbacks ==
    <<"The measure takes effect January 1 pending approval",
      "Three board members abstained from the final vote",
      "Implementation requires state regulatory approval first",
      "The proposal passed by a 7-6 margin Tuesday",
      "Federal funding covers 40% of projected costs",
      "Similar measures passed in Cambridge and Somerville">>

\* Faulty variant: the branch of lines 292-293 comes before the location
\* branch.
Third_number_first(title, desc) ==
    IF Len(Numbers(desc)) >= 2
    THEN <<"The figure includes", Numbers(desc)[2], "according to reports">>
    ELSE IF Len(Names(desc)) >= 2
    THEN Names(desc)[2] \o <<"also participated in the announcement">>
    ELSE IF Numbers(desc) # <<>>
    THEN <<"Officials confirmed", Numbers(desc)[1], "in the initial report">>
    ELSE IF Locations(desc) # <<>>
    THEN <<"The", Locations(desc)[1], "location is primarily affected">>
    ELSE <<factual_fallbacks[(Md5Byte(title) % 6) + 1]>>

\* Lines 285-306: the third bullet.
Third(title, desc) ==
    IF Len(Numbers(desc)) >= 2
    THEN <<"The figure includes", Numbers(desc)[2], "according to reports">>
    ELSE IF Len(Names(desc)) >= 2
    THEN Names(desc)[2] \o <<"also participated in the announcement">>
    ELSE IF Locations(desc) # <<>>
    THEN <<"The", Locations(desc)[1], "location is primarily affected">>
    ELSE IF Numbers(desc) # <<>>
    THEN <<"Officials confirmed", Numbers(desc)[1], "in the initial report">>
    ELSE <<factual_fallbacks[(Md5Byte(title) % 6) + 1]>>

\* The number of characters a token takes in the text.
Width(t) ==
    CASE t = "Breaking: " -> 10
      [] t \in {"word", "Name", "Mayor"} -> 5
      [] t = "Boston" -> 7
      [] t \in {"7", "9"} -> 2
      [] OTHER -> 1

\* text[:n]: the tokens that fit in n characters.
RECURSIVE Slice(_, _)
Slice(text, n) ==
    IF text = <<>> \/ Width(Head(text)) > n THEN <<>>
    ELSE <<Head(text)>> \o Slice(Tail(text), n - Width(Head(text)))

\* str.strip() of a title: blanks at both ends go.
RECURSIVE Strip(_)
Strip(text) ==
    IF text = <<>> THEN <<>>
    ELSE IF Head(text) = " " THEN Strip(Tail(text))
    ELSE IF text[Len(text)] = " " THEN Strip(SubSeq(text, 1, Len(text) - 1))
    ELSE text

\* Line 309: title.replace("Breaking: ", "").strip()[:75].
IsNotPrefix(t) == t # "Breaking: "
TITLE_CUT == 75
CleanTitle(title) == Slice(Strip(SelectSeq(title, IsNotPrefix)), TITLE_CUT)

\* Line 310: the text before the first '. ', that is before the first full
\* stop that a word or a number follows; the whole text when there is none.
SENTENCE_CUT == 80
SentenceEnds(desc) ==
    {i \in 1..(Len(desc) - 1) : desc[i] = "." /\ desc[i + 1] # "."}
FirstSentence(desc) ==
    IF SentenceEnds(desc) # {}
    THEN Slice(SubSeq(desc, 1, Min(SentenceEnds(desc)) - 1), SENTENCE_CUT)
    ELSE Slice(desc, SENTENCE_CUT)

\* Line 312: the list the function returns.
FactualFallback(a) ==
    <<CleanTitle(a.title), FirstSentence(a.description), Third(a.title, a.description)>>

\* --------------------------------------------------------- initial disks
Entry(t) == [title |-> t, summary |-> "ai"]
Filler(n) == [i \in 1..n |-> Entry(100 + i)]
Stored(arts) ==
    DumpHistory([articles |-> arts, lastUpdated |-> 0, totalArticles |-> Len(arts)])

\* A history file left by a git merge whose conflict runs to the end of the
\* file: both sides close the object.
ConflictTail ==
    <<Key("{"), ArticlesLine(<<Entry(1)>>),
      Key("<<<<<<< "), Tok("lastUpdated", 0, ""), Tok("totalArticles", 1, ""), Key("}"),
      Key("======="), Tok("lastUpdated", 0, ""), Tok("totalArticles", 1, ""), Key("}"),
      Key(">>>>>>> ")>>

\* A history file left by a git merge of two runs that differ in lastUpdated:
\* the conflict sits in the middle of the object.
ConflictMid ==
    <<Key("{"), ArticlesLine(<<Entry(1)>>),
      Key("<<<<<<< "), Tok("lastUpdated", 0, ""),
      Key("======="), Tok("lastUpdated", 1, ""),
      Key(">>>>>>> "), Tok("totalArticles", 1, ""), Key("}")>>

\* A history file that is the JSON object {} (no 'articles' key), and one
\* that is not JSON at all.
EmptyObject == <<Key("{"), Key("}")>>
Garbage == <<Key("garbage")>>

Missing == <<>>

\* Histories earlier runs can have left: none, empty, short, one below the
\* cap, and full with a title of the feed as its oldest entry; and files
\* that a merge, a hand edit or a broken write can have left.
InitHistoryFiles ==
    {Missing, Stored(<<>>), Stored(<<Entry(1)>>), Stored(Filler(HISTORY_CAP - 1)),
     Stored(Filler(HISTORY_CAP - 1) \o <<Entry(1)>>), ConflictTail,
     ConflictMid, EmptyObject, Garbage}

InitDisk(c) ==
    /\ files = [path \in Paths |-> IF path = HISTORY_FILE /\ c # Missing THEN 1 ELSE 0]
    /\ inodes = [i \in Inodes |-> IF i = 1 THEN c ELSE <<>>]

InitProcs(running, at) ==
    /\ pc = [p \in Procs |-> IF p \in running THEN at ELSE "off"]
    /\ client = [p \in Procs |-> FALSE]
    /\ articles = [p \in Procs |-> <<>>]
    /\ idx = [p \in Procs |-> 0]
    /\ summary = [p \in Procs |-> None]
    /\ attempts = [p \in Procs |-> 0]
    /\ callLog = [p \in Procs |-> <<>>]
    /\ processed = [p \in Procs |-> <<>>]
    /\ ai_count = [p \in Procs |-> 0]
    /\ history = [p \in Procs |-> DefaultHistory]
    /\ output = [p \in Procs |-> NoOutput]
    /\ saveName = [p \in Procs |-> ""]
    /\ saveRet = [p \in Procs |-> ""]
    /\ saveOk = [p \in Procs |-> TRUE]
    /\ fd = [p \in Procs |-> Closed]
    /\ cleaned = [p \in Procs |-> <<>>]
    /\ error = [p \in Procs |-> ""]
    /\ exitCode = [p \in Procs |-> -1]
    /\ crashPc = [p \in Procs |-> ""]

\* No call of generate_factual_fallback is under way.
NoFallbackCall == article = NoArticle /\ fallback = <<>>

\* ------------------------------------------------- one run of the program
Init ==
    /\ \E c \in InitHistoryFiles : InitDisk(c)
    /\ InitProcs({1}, "start")
    /\ NoFallbackCall

Step(p) ==
    \/ MainInit(p)
    \/ FetchFeed(p)
    \/ GenerateSummary(p)
    \/ CheckAndAppend(p)
    \/ UpdateHistoryLoad(p)
    \/ CleanJsonFile(p)
    \/ CleanValidate(p)
    \/ CleanWrite(p)
    \/ UpdateHistoryReload(p)
    \/ UpdateHistoryMerge(p)
    \/ SaveOpen(p)
    \/ SaveWrite(p)
    \/ SaveReplace(p)
    \/ BuildOutput(p)
    \/ MainEnd(p)
    \/ FatalHandler(p)
    \/ FatalExit(p)

Next == \E p \in Procs : Step(p) \/ Crash(p)

Spec == Init /\ [][Next]_vars


\* --------------------------------------- update_history called repeatedly
\* The batches main passes at line 396: one processed article per fetched
\* article, in feed order, titles repeated when the feed repeats them.
Batches == {[i \in 1..Len(f) |-> Entry(f[i])] : f \in Feeds \ {<<>>}}

\* Line 314: a call of update_history(new_articles).
CallUpdateHistory(p) ==
    /\ pc[p] = "idle"
    /\ \E batch \in Batches : processed' = [processed EXCEPT ![p] = batch]
    /\ pc' = [pc EXCEPT ![p] = "uh_load"]
    /\ UNCHANGED <<disk, client, articles, idx, summary, attempts, callLog,
                   ai_count, history, output, save_vars, cleaned, error,
                   exitCode, crashPc, article, fallback>>

\* Line 332: update_history returns to its caller.
ReturnUpdateHistory(p) ==
    /\ pc[p] = "uh_done"
    /\ pc' = [pc EXCEPT ![p] = "idle"]
    /\ processed' = [processed EXCEPT ![p] = <<>>]
    /\ history' = [history EXCEPT ![p] = DefaultHistory]
    /\ saveName' = [saveName EXCEPT ![p] = ""]
    /\ saveRet' = [saveRet EXCEPT ![p] = ""]
    /\ UNCHANGED <<disk, client, articles, idx, summary, attempts, callLog,
                   ai_count, output, saveOk, fd, cleaned, error, exitCode,
                   crashPc, article, fallback>>

UpdateHistoryStep(p) ==
    \/ UpdateHistoryLoad(p)
    \/ CleanJsonFile(p)
    \/ CleanValidate(p)
    \/ CleanWrite(p)
    \/ UpdateHistoryReload(p)
    \/ UpdateHistoryMerge(p)
    \/ SaveOpen(p)
    \/ SaveWrite(p)
    \/ SaveReplace(p)

\* Any number of successive merges by one process.
InitHistory ==
    /\ \E c \in InitHistoryFiles : InitDisk(c)
    /\ InitProcs({1}, "idle")
    /\ NoFallbackCall

NextHistory ==
    \E p \in Procs : CallUpdateHistory(p) \/ UpdateHistoryStep(p) \/ ReturnUpdateHistory(p)

SpecHistory == InitHistory /\ [][NextHistory]_vars

\* Two runs merge at the same time, one call each.
InitConc ==
    /\ \E c \in {Missing, Stored(<<>>), Stored(<<Entry(1)>>), ConflictTail} : InitDisk(c)
    /\ InitProcs(Procs, "idle")
    /\ NoFallbackCall

NextConc == \E p \in Procs : CallUpdateHistory(p) \/ UpdateHistoryStep(p)

SpecConc == InitConc /\ [][NextConc]_vars


\* ------------------------------- generate_factual_fallback on its own
\* The titles of up to two tokens, the ones Md5Byte lists.
FallbackTitles == UNION {[1..n -> TitleTokens] : n \in 0..2}
Descriptions == UNION {[1..n -> DescTokens] : n \in 0..MaxDesc}

main_vars == <<files, inodes, pc, client, articles, idx, summary,
               attempts, callLog, processed, ai_count, history, output, saveName,
               saveRet, saveOk, fd, cleaned, error, exitCode, crashPc>>

\* Lines 190, 199, 211, 226: a call of generate_factual_fallback(article).
GenerateFactualFallback ==
    /\ fallback = <<>>
    /\ fallback' = FactualFallback(article)
    /\ UNCHANGED <<main_vars, article>>

InitFallback ==
    /\ InitDisk(Missing)
    /\ InitProcs({}, "off")
    /\ \E t \in FallbackTitles, d \in Descriptions :
          article = [title |-> t, description |-> d]
    /\ fallback = <<>>

NextFallback == GenerateFactualFallback

SpecFallback == InitFallback /\ [][NextFallback]_vars

\* ------------------------------------------- clean_json_file on its own
\* Files a git merge leaves: lines, one conflict block (opening marker, one
\* side, separator, other side, closing marker), lines.
PlainLines == {Key("{"), Key("}"), Tok("lastUpdated", 0, "")}
Segments == UNION {[1..n -> PlainLines] : n \in 0..MaxSeg}
ConflictFiles ==
    {pre \o <<Key("<<<<<<< ")>> \o ours \o <<Key("=======")>> \o theirs
         \o <<Key(">>>>>>> ")>> \o post :
        pre \in Segments, ours \in Segments, theirs \in Segments, post \in Segments}

InitClean ==
    /\ \E c \in ConflictFiles : InitDisk(c)
    /\ InitProcs({1}, "clean")
    /\ NoFallbackCall

NextClean == \E p \in Procs : CleanJsonFile(p) \/ CleanValidate(p) \/ CleanWrite(p)

SpecClean == InitClean /\ [][NextClean]_vars

\* ------------------------------------ batch_generate_summaries (104-229)
batch_size == 3

\* What the generation call does for one batch: it raises (or its result
\* cannot be searched for keys), it returns text that is not JSON, or it
\* returns a JSON object; then for each key article_j the value is a list of 3
\* clean strings ("ok"), a list of 3 strings with a forbidden word
\* ("forbidden"), missing or of the wrong shape ("format"), or a list of 3
\* values that are not strings ("nonstr"), on which ' '.join raises.
ItemOutcomes == {"ok", "forbidden", "format", "nonstr"}
BatchResponses ==
    {[kind |-> "raise", items |-> <<>>], [kind |-> "nonjson", items |-> <<>>]}
        \cup {[kind |-> "json", items |-> r] : r \in [1..batch_size -> ItemOutcomes]}

FallbackEntry(t) == [title |-> t, summary |-> "fallback"]

\* Lines 206-212 and 221-227: a fallback entry for every article of the batch.
FallbackAll(done, batch) == done \o [j \in 1..Len(batch) |-> FallbackEntry(batch[j])]

\* Lines 170-201: the articles of the batch in turn, from the j-th on, until
\* one raises.
RECURSIVE ProcessResults(_, _, _, _)
ProcessResults(batch, items, j, acc) ==
    IF j > Len(batch) THEN acc
    ELSE CASE items[j] = "ok" ->
                ProcessResults(batch, items, j + 1,
                    [acc EXCEPT !.processed = Append(@, [title |-> batch[j], summary |-> "ai"]),
                                !.ai_count = @ + 1])
           [] items[j] \in {"forbidden", "format"} ->
                ProcessResults(batch, items, j + 1,
                    [acc EXCEPT !.processed = Append(@, FallbackEntry(batch[j]))])
           [] OTHER -> [acc EXCEPT !.raised = TRUE]

\* Line 104: a call of batch_generate_summaries(client, articles).
BatchCall(p) ==
    /\ pc[p] = "batch_call"
    /\ \E n \in 0..MaxBatchInput : articles' = [articles EXCEPT ![p] = [i \in 1..n |-> i]]
    /\ idx' = [idx EXCEPT ![p] = 0]
    /\ processed' = [processed EXCEPT ![p] = <<>>]
    /\ ai_count' = [ai_count EXCEPT ![p] = 0]
    /\ pc' = [pc EXCEPT ![p] = "batch_loop"]
    /\ UNCHANGED <<disk, client, summary, attempts, callLog, history, output,
                   save_vars, cleaned, error, exitCode, crashPc, article, fallback>>

\* Lines 112-227: one round of the loop over the batches.
BatchRound(p) ==
    /\ pc[p] = "batch_loop"
    /\ idx[p] < Len(articles[p])
    /\ LET i == idx[p]
           last == IF i + batch_size < Len(articles[p]) THEN i + batch_size
                   ELSE Len(articles[p])
           batch == SubSeq(articles[p], i + 1, last)
       IN \E resp \in BatchResponses :
             LET acc == ProcessResults(batch, resp.items, 1,
                            [processed |-> processed[p], ai_count |-> ai_count[p],
                             raised |-> FALSE])
             IN IF resp.kind \in {"raise", "nonjson"}
                THEN /\ processed' = [processed EXCEPT ![p] = FallbackAll(@, batch)]
                     /\ ai_count' = ai_count
                ELSE /\ processed' = [processed EXCEPT ![p] =
                                         IF acc.raised THEN FallbackAll(acc.processed, batch)
                                         ELSE acc.processed]
                     /\ ai_count' = [ai_count EXCEPT ![p] = acc.ai_count]
    /\ idx' = [idx EXCEPT ![p] = @ + batch_size]
    /\ UNCHANGED <<disk, pc, client, articles, summary, attempts, callLog, history,
                   output, save_vars, cleaned, error, exitCode, crashPc, article, fallback>>

\* Line 229: return processed, ai_count.
BatchReturn(p) ==
    /\ pc[p] = "batch_loop"
    /\ idx[p] >= Len(articles[p])
    /\ pc' = [pc EXCEPT ![p] = "batch_done"]
    /\ UNCHANGED <<disk, client, article_vars, history, output,
                   save_vars, cleaned, error, exitCode, crashPc, article, fallback>>

InitBatch ==
    /\ InitDisk(Missing)
    /\ InitProcs({1}, "batch_call")
    /\ NoFallbackCall

NextBatch == \E p \in Procs : BatchCall(p) \/ BatchRound(p) \/ BatchReturn(p)

SpecBatch == InitBatch /\ [][NextBatch]_vars

\* ================================================================= claims
\* What a reader of the files finds.
StoredArticles ==
    IF Exists(HISTORY_FILE) /\ ValidJson(Content(HISTORY_FILE))
    THEN JsonLoad(Content(HISTORY_FILE)).articles ELSE <<>>

TitlesOf(arts) == {arts[i].title : i \in 1..Len(arts)}
StatLines(c, k) == {i \in 1..Len(c) : c[i].k = k}
Bullets(s) == IF s = None THEN 0 ELSE 3
FailedCall(o) == o \in {"raise", "badshape"}

\* C1: no two entries of the stored history share a title, after any
\* sequence of merges from a duplicate-free history and for any batches,
\* a batch that repeats a title included.
C1_NoDuplicateTitles == Cardinality(TitlesOf(StoredArticles)) = Len(StoredArticles)

\* C2 as stated: once update_history has stored its result, running it again
\* with the same batch would leave the sequence of history articles as it is.
C2_Idempotent ==
    \A p \in Procs :
        pc[p] = "uh_done" =>
            Merge(JsonLoad(Content(HISTORY_FILE)), processed[p], Now(p)).articles
                = StoredArticles

\* C2 amended: the same, for the merges after which every title of the batch
\* is still stored, that is, whose truncation to the cap dropped no stored
\* article that the batch names again.
C2_IdempotentUnlessDropped ==
    \A p \in Procs :
        (pc[p] = "uh_done" /\ TitlesOf(processed[p]) \subseteq TitlesOf(StoredArticles)) =>
            Merge(JsonLoad(Content(HISTORY_FILE)), processed[p], Now(p)).articles
                = StoredArticles

\* A merge into a full history that had to truncate and kept the batch.
C2_Witness ==
    \E p \in Procs :
        /\ pc[p] = "uh_done"
        /\ Len(StoredArticles) = HISTORY_CAP
        /\ StoredArticles[1].title \in Titles
        /\ TitlesOf(processed[p]) \subseteq TitlesOf(StoredArticles)

\* C3: the stored history never holds more than 500 articles, whatever the
\* sizes of the loaded history and of the batch, after any number of merges.
C3_CapRespected ==
    /\ Len(StoredArticles) <= HISTORY_CAP
    /\ \A p \in Procs :
          pc[p] = "uh_done" =>
              /\ Len(history[p].articles) <= HISTORY_CAP
              /\ history[p].totalArticles = Len(history[p].articles)

\* Two new articles were merged into a history of 499 or 500 and the oldest
\* entries beyond the cap are gone.
C3_Witness ==
    \E p \in Procs :
        /\ pc[p] = "uh_done"
        /\ Len(StoredArticles) = HISTORY_CAP
        /\ StoredArticles[1].title \in Titles
        /\ StoredArticles[2].title \in Titles
        /\ StoredArticles[3].title \notin Titles

\* C4: every step taken inside save_json_safely, a crash there included,
\* leaves the target file as it was or puts the complete new text in its
\* place; and the current-batch file, which only save_json_safely writes, is
\* complete JSON in every state in which it exists.
SaveIsAtomic ==
    \A p \in Procs :
        pc[p] \in {"save_open", "save_write", "save_replace"} =>
            LET f == saveName[p]
                after == IF files'[f] = 0 THEN <<>> ELSE inodes'[files'[f]]
            IN \/ (files'[f] = 0) = (files[f] = 0) /\ after = Content(f)
               \/ pc[p] = "save_replace" /\ files'[f] # 0 /\ after = SaveData(p)

C4_AtomicSave ==
    /\ [](Exists(DATA_FILE) => ValidJson(Content(DATA_FILE)))
    /\ [][SaveIsAtomic]_vars

\* The process died while writing the temporary file: that file is partial
\* and the history file is still there, complete.
C4_Witness ==
    \E p \in Procs :
        /\ pc[p] = "crashed"
        /\ crashPc[p] = "save_write"
        /\ Exists(TempFile(HISTORY_FILE))
        /\ Content(TempFile(HISTORY_FILE)) # <<>>
        /\ ~ValidJson(Content(TempFile(HISTORY_FILE)))
        /\ Exists(HISTORY_FILE)
        /\ ValidJson(Content(HISTORY_FILE))

\* C5: when two runs have both finished update_history, the history file is
\* the complete text that one of the two wrote.
C5_LastWriterWins ==
    (\A p \in Procs : pc[p] = "uh_done") =>
        \E p \in Procs : Content(HISTORY_FILE) = DumpHistory(history[p])

\* C6: in a finished run with a client in which a generation call failed,
\* the batch was not aborted: the current batch holds one article per fetched
\* article and the history was merged.
C6_ErrorContained ==
    \A p \in Procs :
        (/\ pc[p] = "done"
         /\ client[p]
         /\ \E i \in 1..Len(callLog[p]) : FailedCall(callLog[p][i])) =>
            /\ error[p] = ""
            /\ Len(JsonLoad(Content(DATA_FILE)).articles) = Len(articles[p])
            /\ history[p].lastUpdated = Now(p)

\* C7: when generate_summary returns after a failed call, it has made 3
\* attempts and returns no result.
C7_ThreeAttempts ==
    \A p \in Procs :
        (/\ pc[p] = "check"
         /\ client[p]
         /\ FailedCall(callLog[p][Len(callLog[p])])) =>
            attempts[p] = 3 /\ summary[p] = None

\* C8: a finished run without a client over a feed of n >= 1 entries made
\* no generation call and wrote n articles, each with a summary of 3
\* bullets, with stats fallback = n and generated = 0.
C8_FallbackOnly ==
    \A p \in Procs :
        (pc[p] = "done" /\ ~client[p] /\ articles[p] # <<>>) =>
            LET c == Content(DATA_FILE)
                batch == JsonLoad(c).articles
            IN /\ callLog[p] = <<>>
               /\ Len(batch) = Len(articles[p])
               /\ \A i \in 1..Len(batch) : Bullets(batch[i].summary) = 3
               /\ StatLines(c, "stats.fallback_summaries") # {}
               /\ c[Min(StatLines(c, "stats.fallback_summaries"))].n = Len(articles[p])
               /\ c[Min(StatLines(c, "stats.ai_summaries"))].n = 0

\* C9: a finished run over 2 articles whose first generation call failed and
\* whose later calls all succeeded counts 2 generated summaries and made
\* exactly 3 generation calls.
C9_RetryThenSuccess ==
    \A p \in Procs :
        (/\ pc[p] = "done"
         /\ client[p]
         /\ Len(articles[p]) = 2
         /\ callLog[p] # <<>>
         /\ FailedCall(callLog[p][1])
         /\ \A i \in 2..Len(callLog[p]) : callLog[p][i] = "ok") =>
            /\ output[p].stats.ai_summaries = 2
            /\ Len(callLog[p]) = 3

\* C10: a finished run whose feed was empty wrote a current-batch file with
\* an empty articles array and a stats.error entry, and ended with status 0
\* without an exception.
C10_EmptyFeed ==
    \A p \in Procs :
        (pc[p] = "done" /\ articles[p] = <<>>) =>
            LET c == Content(DATA_FILE)
            IN /\ Exists(DATA_FILE)
               /\ ValidJson(c)
               /\ JsonLoad(c).hasArticles
               /\ JsonLoad(c).articles = <<>>
               /\ StatLines(c, "stats.error") # {}
               /\ c[Min(StatLines(c, "stats.error"))].s # ""
               /\ error[p] = ""
               /\ exitCode[p] = 0

C10_Witness ==
    \E p \in Procs :
        /\ pc[p] = "done"
        /\ articles[p] = <<>>
        /\ Exists(DATA_FILE)
        /\ StatLines(Content(DATA_FILE), "stats.error") # {}

\* C11: after every finished run, whatever the history file was at the start
\* and whatever failed during the run, the current-batch file and the history
\* file both exist and both hold valid JSON.
C11_BothFilesValid ==
    \A p \in Procs :
        pc[p] = "done" =>
            /\ Exists(DATA_FILE) /\ ValidJson(Content(DATA_FILE))
            /\ Exists(HISTORY_FILE) /\ ValidJson(Content(HISTORY_FILE))

\* The record a reader finds in the current-batch file after an exception.
HasErrorRecord(c, msg) ==
    /\ ValidJson(c)
    /\ JsonLoad(c).articles = <<>>
    /\ StatLines(c, "stats.error") # {}
    /\ c[Min(StatLines(c, "stats.error"))].s = msg

\* C12 as stated: a finished run in which an exception left main has written
\* the minimal record with the error and ended with a failure status; a
\* finished run in which only some summaries were not generated ended with
\* status 0.
C12_ExitSignalling ==
    \A p \in Procs :
        pc[p] = "done" =>
            /\ error[p] # "" =>
                  HasErrorRecord(Content(DATA_FILE), error[p]) /\ exitCode[p] # 0
            /\ (error[p] = "" /\ ai_count[p] < Len(processed[p])) => exitCode[p] = 0

\* C12 amended: the same, except that the run whose exception left main also
\* ends with status 0, after the minimal record with the error was written.
C12_ExitsZero ==
    \A p \in Procs :
        pc[p] = "done" =>
            /\ exitCode[p] = 0
            /\ error[p] # "" => HasErrorRecord(Content(DATA_FILE), error[p])

\* A run ended through the handler of the exception raised at line 381.
C12_Witness ==
    \E p \in Procs :
        /\ pc[p] = "done"
        /\ error[p] = "TypeError"
        /\ exitCode[p] = 0
        /\ HasErrorRecord(Content(DATA_FILE), "TypeError")

\* C13: the list generate_factual_fallback returns holds exactly 3 strings
\* and none of them is empty, for every article, one with an empty
\* description or a title that is empty after cleaning included.
C13_ThreeNonEmpty ==
    fallback # <<>> =>
        /\ Len(fallback) = 3
        /\ \A i \in 1..3 : fallback[i] # <<>>

\* The k-th numeric token and the first location token of a description.
NumberPositions(d) == {i \in 1..Len(d) : IsNumber(d[i])}
SecondNumber(d) == d[Min(NumberPositions(d) \ {Min(NumberPositions(d))})]
FirstLocation(d) == d[Min({i \in 1..Len(d) : IsLocation(d[i])})]
Canned == {<<factual_fallbacks[i]>> : i \in 1..6}
Mentions(bullet, t) == \E i \in 1..Len(bullet) : bullet[i] = t

\* Which of the sources (a), (b), (c) a description offers.
HasTwoNumbers(d) == Cardinality(NumberPositions(d)) >= 2
HasTwoNames(d) == Len(Names(d)) >= 2
HasLocation(d) == \E i \in 1..Len(d) : IsLocation(d[i])

\* C17 as stated: the third bullet names the second number when there are
\* two; else the second name when there are two; else the location when
\* there is one; and in every other case it is one of the canned statements.
C17_Priority ==
    fallback # <<>> =>
        LET d == article.description
            third == fallback[3]
        IN /\ HasTwoNumbers(d) => Mentions(third, SecondNumber(d))
           /\ (~HasTwoNumbers(d) /\ HasTwoNames(d)) => SubSeq(third, 1, 2) = Names(d)[2]
           /\ (~HasTwoNumbers(d) /\ ~HasTwoNames(d) /\ HasLocation(d)) =>
                  Mentions(third, FirstLocation(d))
           /\ (~HasTwoNumbers(d) /\ ~HasTwoNames(d) /\ ~HasLocation(d)) =>
                  third \in Canned

\* C17 amended: the same priority, with one more source between (c) and (d):
\* when none of (a)-(c) applies and the text has exactly one number, the
\* bullet names that number; the canned statement, the one the first byte of
\* the title's md5 digest selects modulo 6, is used only when the text has no
\* number at all.
C17_PriorityWithSingleNumber ==
    fallback # <<>> =>
        LET d == article.description
            third == fallback[3]
        IN /\ HasTwoNumbers(d) => Mentions(third, SecondNumber(d))
           /\ (~HasTwoNumbers(d) /\ HasTwoNames(d)) => SubSeq(third, 1, 2) = Names(d)[2]
           /\ (~HasTwoNumbers(d) /\ ~HasTwoNames(d) /\ HasLocation(d)) =>
                  Mentions(third, FirstLocation(d))
           /\ (~HasTwoNumbers(d) /\ ~HasTwoNames(d) /\ ~HasLocation(d)
                   /\ NumberPositions(d) # {}) =>
                  /\ third \notin Canned
                  /\ Mentions(third, d[Min(NumberPositions(d))])
           /\ (~HasTwoNames(d) /\ ~HasLocation(d) /\ NumberPositions(d) = {}) =>
                  third = <<factual_fallbacks[(Md5Byte(article.title) % 6) + 1]>>

\* The fallback was built for a text with exactly one number, fewer than
\* two names and no location: the bullet names that number.
C17_Witness ==
    /\ fallback # <<>>
    /\ Cardinality(NumberPositions(article.description)) = 1
    /\ ~HasTwoNames(article.description)
    /\ ~HasLocation(article.description)
    /\ fallback[3] =
           <<"Officials confirmed", "9", "in the initial report">>

\* C14: whatever the history file holds, loading and merging in
\* update_history never raises: no call of update_history ends with an
\* exception, and a call that found the stored state unusable saves the
\* batch merged into an empty history.
C14_UpdateHistoryNeverRaises ==
    \A p \in Procs :
        /\ ~(pc[p] = "fatal" /\ error[p] = "KeyError")
        /\ pc[p] = "uh_done" => history[p].lastUpdated = Now(p)

\* A batch whose titles differ from one another and from every stored title.
AllNew(batch, stored) ==
    /\ Cardinality(TitlesOf(batch)) = Len(batch)
    /\ TitlesOf(batch) \cap TitlesOf(stored) = {}

FirstN(arts, n) == SubSeq(arts, 1, IF Len(arts) < n THEN Len(arts) ELSE n)

\* C15: when update_history merges a batch, given newest first, whose titles
\* are all new, the merged history is the batch in its own order followed by
\* the stored entries in their order (cut at the cap): the first article of
\* the batch is the first entry of the history.
MergeKeepsBatchOrder ==
    \A p \in Procs :
        (/\ pc[p] = "uh_merge"
         /\ pc'[p] = "save_open"
         /\ AllNew(processed[p], history[p].articles)) =>
            history'[p].articles =
                FirstN(processed[p] \o history[p].articles, HISTORY_CAP)

C15_NewestFirst == [][MergeKeepsBatchOrder]_vars

\* The value of a statistic in the text of the current-batch file.
Stat(c, k) == c[Min(StatLines(c, k))].n

\* A stored summary that the external generation call returned: every one
\* but None, which generate_summary returns when no call gave a summary.
FromCall(s) == s # None

\* C16: in the current batch a finished run with articles wrote, ai_summaries
\* is the number of articles whose stored summary the generation call
\* returned, and ai_summaries + fallback_summaries = total_articles = the
\* number of articles in the batch.
C16_StatsFollowOrigin ==
    \A p \in Procs :
        (pc[p] = "done" /\ error[p] = "" /\ articles[p] # <<>>) =>
            LET c == Content(DATA_FILE)
                batch == JsonLoad(c).articles
            IN /\ Stat(c, "stats.ai_summaries") =
                      Cardinality({i \in 1..Len(batch) : FromCall(batch[i].summary)})
               /\ Stat(c, "stats.ai_summaries") + Stat(c, "stats.fallback_summaries")
                      = Stat(c, "stats.total_articles")
               /\ Stat(c, "stats.total_articles") = Len(batch)

\* The lines of a file with well-formed conflict blocks that lie outside the
\* blocks: where is "out", "ours" or "theirs".
RECURSIVE OutsideLines(_, _)
OutsideLines(lines, where) ==
    IF lines = <<>> THEN <<>>
    ELSE IF Head(lines).k = "<<<<<<< " THEN OutsideLines(Tail(lines), "ours")
    ELSE IF Head(lines).k = "=======" THEN OutsideLines(Tail(lines), "theirs")
    ELSE IF Head(lines).k = ">>>>>>> " THEN OutsideLines(Tail(lines), "out")
    ELSE IF where = "out" THEN <<Head(lines)>> \o OutsideLines(Tail(lines), where)
    ELSE OutsideLines(Tail(lines), where)

\* Every line of part occurs in whole, in the same order.
RECURSIVE IsSubsequence(_, _)
IsSubsequence(part, whole) ==
    IF part = <<>> THEN TRUE
    ELSE IF whole = <<>> THEN FALSE
    ELSE IF Head(part) = Head(whole) THEN IsSubsequence(Tail(part), Tail(whole))
    ELSE IsSubsequence(part, Tail(whole))

\* C18: the cleaned content clean_json_file builds for a file with
\* well-formed conflict blocks has no marker line and keeps every line that
\* lies outside the blocks, before the opening marker and after the closing
\* one, in order.
C18_OnlyConflictsStripped ==
    \A p \in Procs :
        pc[p] = "clean_check" =>
            /\ \A i \in 1..Len(cleaned[p]) : ~IsMarker(cleaned[p][i])
            /\ IsSubsequence(OutsideLines(Content(HISTORY_FILE), "out"), cleaned[p])

\* C19: what batch_generate_summaries returns holds exactly one entry per
\* input article, in input order, whatever the generation call did for each
\* batch of 3; and the returned ai_count is at most the number of inputs.
C19_OnePerArticle ==
    \A p \in Procs :
        pc[p] = "batch_done" =>
            /\ Len(processed[p]) = Len(articles[p])
            /\ \A i \in 1..Len(processed[p]) :
                  i <= Len(articles[p]) /\ processed[p][i].title = articles[p][i]
            /\ ai_count[p] <= Len(articles[p])

\* A run that has not fetched any article: before the fetch, and after a
\* fetch that returned an empty feed.
InEmptyRun(p) == pc[p] \notin {"off", "crashed"} /\ articles[p] = <<>>

HistorySteps == {"uh_load", "clean", "clean_check", "clean_write", "uh_reload", "uh_merge"}

\* C20: a run in which the fetch returns zero articles never enters
\* update_history nor a save of the history file, every one of its steps
\* leaves the history file as it is, and when it ends the current-batch file
\* is written.
EmptyRunLeavesHistory ==
    \A p \in Procs :
        (InEmptyRun(p) /\ pc'[p] \notin {"off", "crashed"} /\ articles'[p] = <<>>) =>
            /\ files'[HISTORY_FILE] = files[HISTORY_FILE]
            /\ files[HISTORY_FILE] # 0 =>
                   inodes'[files[HISTORY_FILE]] = inodes[files[HISTORY_FILE]]
            /\ pc'[p] \notin HistorySteps
            /\ saveName'[p] # HISTORY_FILE
            /\ pc'[p] = "done" =>
                   files'[DATA_FILE] # 0 /\ inodes'[files'[DATA_FILE]] = DumpOutput(output[p])

C20_EmptyFeedFrame == [][EmptyRunLeavesHistory]_vars

\* A run over an empty feed ended and the history file, which conflict
\* repair could have rewritten, still holds its conflict markers.
C20_Witness ==
    \E p \in Procs :
        /\ pc[p] = "done"
        /\ articles[p] = <<>>
        /\ Exists(DATA_FILE)
        /\ Content(HISTORY_FILE) = ConflictTail

====
